---------------------------- MODULE Spec2Model ----------------------------
(***************************************************************************)
(* alltrailsgpx: the conversion of an AllTrails JSON document into a GPX   *)
(* track (src/src/lib.rs, with the stand-alone revision src/src/main.rs).  *)
(*                                                                         *)
(* A JSON value is a record tagged by t.  A polyline text is a sequence of *)
(* byte codes.  A coordinate is a record [x |-> longitude, y |-> latitude] *)
(* whose components are integers counting 1/DegreeUnits of a degree (the   *)
(* program holds them as f64 degrees).                                     *)
(***************************************************************************)
EXTENDS Integers, Sequences, FiniteSets, TLC

(***************************************************************************)
(* Bounds of the model.                                                    *)
(***************************************************************************)
\* The longest coordinate list a conversion test case holds.
MaxPoints == 2

(***************************************************************************)
(* Program constants.                                                      *)
(***************************************************************************)
POLYLINE_PRECISION == 5
GPX_CREATOR == "alltrailsgpx"
GPX_VERSION == "1.1"

\* Units per degree of the integer coordinates of the model.
DegreeUnits == 10 ^ 7
\* const TOLERANCE: f64 = 1e-6, in units.
TOLERANCE == DegreeUnits \div (10 ^ 6)

MIN_LONGITUDE == -180 * DegreeUnits
MAX_LONGITUDE == 180 * DegreeUnits
MIN_LATITUDE == -90 * DegreeUnits
MAX_LATITUDE == 90 * DegreeUnits

(***************************************************************************)
(* Option and Result.                                                      *)
(***************************************************************************)
None == [some |-> FALSE]
Some(v) == [some |-> TRUE, val |-> v]

Ok(v) == [ok |-> TRUE, val |-> v]
Err(e) == [ok |-> FALSE, err |-> e]

(***************************************************************************)
(* serde_json::Value.                                                      *)
(***************************************************************************)
Null == [t |-> "null"]
Str(s) == [t |-> "str", s |-> s]
Num(n) == [t |-> "num", n |-> n]
Arr(items) == [t |-> "arr", items |-> items]
Obj(members) == [t |-> "obj", members |-> members]

\* An object of one member, and the union of two objects of distinct keys.
Member(k, v) == [x \in {k} |-> v]
EmptyMembers == [x \in {} |-> Null]
Join(f, g) == [x \in (DOMAIN f) \cup (DOMAIN g) |-> IF x \in DOMAIN f THEN f[x] ELSE g[x]]

\* serde_json's parse_index: a token names an array index when it is a decimal
\* numeral without a sign and without a leading zero.
parse_index(token) ==
    CASE token = "0" -> Some(0)
      [] token = "1" -> Some(1)
      [] OTHER -> None

\* Value::pointer, on the path's tokens: an object is entered by key, an array by
\* index, and any other value (or a missing key or index) ends the lookup.
RECURSIVE pointer(_, _)
pointer(json, tokens) ==
    IF tokens = <<>> THEN Some(json)
    ELSE LET token == Head(tokens) IN
         CASE json.t = "obj" ->
                IF token \in DOMAIN json.members
                THEN pointer(json.members[token], Tail(tokens))
                ELSE None
           [] json.t = "arr" ->
                LET i == parse_index(token) IN
                IF i.some /\ i.val < Len(json.items)
                THEN pointer(json.items[i.val + 1], Tail(tokens))
                ELSE None
           [] OTHER -> None

(***************************************************************************)
(* The candidate paths, in priority order.                                 *)
(***************************************************************************)
OfflinePolylinePath ==
    <<"trails", "0", "defaultMap", "routes", "0", "lineSegments", "0",
      "polyline", "pointsData">>
DeepPolylinePath ==
    <<"maps", "0", "routes", "0", "lineSegments", "0", "polyline", "pointsData">>
OfflineNamePath == <<"trails", "0", "name">>
DeepNamePath == <<"maps", "0", "name">>

\* Mutant: the deep path tried first.
PolylinePathsDeepFirst == <<DeepPolylinePath, OfflinePolylinePath>>
PolylinePaths == <<OfflinePolylinePath, DeepPolylinePath>>
NamePaths == <<OfflineNamePath, DeepNamePath>>

\* paths.iter().find_map(|path| json.pointer(path)): the first lookup that
\* resolves.
RECURSIVE find_in_json(_, _)
find_in_json(json, paths) ==
    IF paths = <<>> THEN None
    ELSE LET found == pointer(json, Head(paths)) IN
         IF found.some THEN found ELSE find_in_json(json, Tail(paths))

\* .as_str()
as_str(v) == IF v.t = "str" THEN Some(v.s) ELSE None

\* Mutant: the two errors of extract_polyline exchanged.
extract_polyline_errors_exchanged(json) ==
    LET found == find_in_json(json, PolylinePaths) IN
    IF ~found.some THEN Err("PolylineNotString")
    ELSE IF ~as_str(found.val).some THEN Err("PolylineNotFound")
    ELSE Ok(as_str(found.val).val)

extract_polyline(json) ==
    LET found == find_in_json(json, PolylinePaths) IN
    IF ~found.some THEN Err("PolylineNotFound")
    ELSE IF ~as_str(found.val).some THEN Err("PolylineNotString")
    ELSE Ok(as_str(found.val).val)

\* Mutant: a name that is no string reported as not found.
extract_route_name_one_error(json) ==
    LET found == find_in_json(json, NamePaths) IN
    IF ~found.some \/ ~as_str(found.val).some THEN Err("RouteNameNotFound")
    ELSE Ok(as_str(found.val).val)

extract_route_name(json) ==
    LET found == find_in_json(json, NamePaths) IN
    IF ~found.some THEN Err("RouteNameNotFound")
    ELSE IF ~as_str(found.val).some THEN Err("RouteNameNotString")
    ELSE Ok(as_str(found.val).val)

(***************************************************************************)
(* The polyline codec (the polyline crate), precision given in digits.     *)
(***************************************************************************)
Factor(precision) == 10 ^ precision

\* f64::round of n / d for d > 0: to the nearest integer, halves away from zero.
RoundDiv(n, d) ==
    LET a == IF n >= 0 THEN n ELSE -n
        q == IF 2 * (a % d) >= d THEN (a \div d) + 1 ELSE a \div d IN
    IF n >= 0 THEN q ELSE -q

\* scale: (n * factor).round() as i64, n in degrees.
scale(n, precision) == RoundDiv(n, DegreeUnits \div Factor(precision))

\* scaled as f64 / factor as f64, in units.
unscale(k, precision) == k * (DegreeUnits \div Factor(precision))

\* value = delta << 1; if value < 0 { value = !value }
ZigZag(delta) == IF delta < 0 THEN -(2 * delta) - 1 ELSE 2 * delta

\* if result & 1 > 0 { !(result >> 1) } else { result >> 1 }
UnZigZag(result) ==
    IF result % 2 = 1 THEN -(result \div 2) - 1 ELSE result \div 2

\* The 5-bit groups of value, low group first, each but the last with the
\* continuation bit 0x20, each offset by 63.
RECURSIVE EncodeValue(_)
EncodeValue(value) ==
    IF value >= 32
    THEN <<(32 + (value % 32)) + 63>> \o EncodeValue(value \div 32)
    ELSE <<value + 63>>

encode(delta) == EncodeValue(ZigZag(delta))

InRange(c) ==
    /\ MIN_LATITUDE <= c.y /\ c.y <= MAX_LATITUDE
    /\ MIN_LONGITUDE <= c.x /\ c.x <= MAX_LONGITUDE

\* encode_coordinates from index i on, previous being the scaled coordinate
\* before it: latitude delta first, then longitude delta.
RECURSIVE EncodeFrom(_, _, _, _)
EncodeFrom(coords, i, previous, precision) ==
    IF i > Len(coords) THEN <<>>
    ELSE LET next == [x |-> scale(coords[i].x, precision),
                      y |-> scale(coords[i].y, precision)] IN
         encode(next.y - previous.y) \o encode(next.x - previous.x)
            \o EncodeFrom(coords, i + 1, next, precision)

encode_coordinates(coords, precision) ==
    IF \E i \in 1..Len(coords) : ~InRange(coords[i])
    THEN Err("CoordError")
    ELSE Ok(EncodeFrom(coords, 1, [x |-> 0, y |-> 0], precision))

\* One number read from chars at index: the groups up to the first one
\* without the continuation bit.  A byte outside the alphabet or the end of
\* the text inside a number is an error.
RECURSIVE trans(_, _, _, _)
trans(chars, index, weight, result) ==
    IF index > Len(chars) THEN Err("DecodeError")
    ELSE IF chars[index] < 63 \/ chars[index] > 126 THEN Err("DecodeError")
    ELSE LET byte == chars[index] - 63
             acc == result + (byte % 32) * weight IN
         IF byte >= 32 THEN trans(chars, index + 1, weight * 32, acc)
         ELSE Ok([change |-> UnZigZag(acc), index |-> index + 1])

\* decode_polyline from index on: a latitude change, then a longitude change,
\* summed onto the running coordinate.
RECURSIVE DecodeFrom(_, _, _, _, _)
DecodeFrom(chars, index, lat, lon, precision) ==
    IF index > Len(chars) THEN Ok(<<>>)
    ELSE LET a == trans(chars, index, 1, 0) IN
         IF ~a.ok THEN a
         ELSE LET b == trans(chars, a.val.index, 1, 0) IN
              IF ~b.ok THEN b
              ELSE LET c == [x |-> unscale(lon + b.val.change, precision),
                             y |-> unscale(lat + a.val.change, precision)]
                       rest == DecodeFrom(chars, b.val.index, lat + a.val.change,
                                          lon + b.val.change, precision) IN
                   IF ~InRange(c) THEN Err("CoordError")
                   ELSE IF ~rest.ok THEN rest
                   ELSE Ok(<<c>> \o rest.val)

decode_polyline(chars, precision) == DecodeFrom(chars, 1, 0, 0, precision)

(***************************************************************************)
(* The GPX track (the gpx crate's Waypoint, TrackSegment, Track, Gpx).     *)
(***************************************************************************)
\* Waypoint::new(coord.into()): the point keeps x as longitude, y as latitude.
Waypoint(coord) == [point |-> [x |-> coord.x, y |-> coord.y]]

\* Mutant: the waypoints built with longitude and latitude exchanged.
create_gpx_axes_exchanged(line_string, name) ==
    LET waypoints == [i \in 1..Len(line_string) |->
                         Waypoint([x |-> line_string[i].y, y |-> line_string[i].x])]
        segment == [points |-> waypoints] IN
    [name |-> Some(name), segments |-> <<segment>>]

create_gpx(line_string, name) ==
    LET waypoints == [i \in 1..Len(line_string) |-> Waypoint(line_string[i])]
        segment == [points |-> waypoints] IN
    [name |-> Some(name), segments |-> <<segment>>]

\* Mutant: the creator left to Default::default().
GpxOfNoCreator(track) ==
    [version |-> GPX_VERSION, creator |-> None, tracks |-> <<track>>]

\* The Gpx value write_gpx hands to gpx::write.
GpxOf(track) ==
    [version |-> GPX_VERSION, creator |-> Some(GPX_CREATOR), tracks |-> <<track>>]

\* gpx::write: the document as the sequence of elements it emits.
PointTokens(points) ==
    [i \in 1..Len(points) |->
        [tag |-> "trkpt", lat |-> points[i].point.y, lon |-> points[i].point.x]]

RECURSIVE SegmentTokens(_)
SegmentTokens(segments) ==
    IF segments = <<>> THEN <<>>
    ELSE <<[tag |-> "trkseg"]>> \o PointTokens(Head(segments).points)
            \o <<[tag |-> "/trkseg"]>> \o SegmentTokens(Tail(segments))

RECURSIVE TrackTokens(_)
TrackTokens(tracks) ==
    IF tracks = <<>> THEN <<>>
    ELSE LET track == Head(tracks) IN
         <<[tag |-> "trk"]>>
            \o (IF track.name.some THEN <<[tag |-> "name", text |-> track.name.val]>>
                ELSE <<>>)
            \o SegmentTokens(track.segments)
            \o <<[tag |-> "/trk"]>> \o TrackTokens(Tail(tracks))

Serialize(gpx) ==
    <<[tag |-> "gpx", version |-> gpx.version, creator |-> gpx.creator]>>
        \o TrackTokens(gpx.tracks) \o <<[tag |-> "/gpx"]>>

\* gpx::read: one element at a time; st.mode is the element the reader is in.
AddToLast(seq, f, v) == [seq EXCEPT ![Len(seq)] = [@ EXCEPT ![f] = v]]

ReadToken(st, tok) ==
    LET bad == [st EXCEPT !.mode = "bad"]
        trk == st.gpx.tracks
        last == trk[Len(trk)] IN
    CASE st.mode = "top" ->
            IF tok.tag = "gpx"
            THEN [mode |-> "gpx",
                  gpx |-> [version |-> tok.version, creator |-> tok.creator,
                           tracks |-> <<>>]]
            ELSE bad
      [] st.mode = "gpx" ->
            IF tok.tag = "trk"
            THEN [mode |-> "trk",
                  gpx |-> [st.gpx EXCEPT !.tracks =
                              Append(@, [name |-> None, segments |-> <<>>])]]
            ELSE IF tok.tag = "/gpx" THEN [st EXCEPT !.mode = "end"]
            ELSE bad
      [] st.mode = "trk" ->
            IF tok.tag = "name"
            THEN [st EXCEPT !.gpx.tracks = AddToLast(trk, "name", Some(tok.text))]
            ELSE IF tok.tag = "trkseg"
            THEN [mode |-> "seg",
                  gpx |-> [st.gpx EXCEPT !.tracks =
                     AddToLast(trk, "segments",
                               Append(last.segments, [points |-> <<>>]))]]
            ELSE IF tok.tag = "/trk" THEN [st EXCEPT !.mode = "gpx"]
            ELSE bad
      [] st.mode = "seg" ->
            IF tok.tag = "trkpt"
            THEN [st EXCEPT !.gpx.tracks =
                     AddToLast(trk, "segments",
                        AddToLast(last.segments, "points",
                           Append(last.segments[Len(last.segments)].points,
                                  [point |-> [x |-> tok.lon, y |-> tok.lat]])))]
            ELSE IF tok.tag = "/trkseg" THEN [st EXCEPT !.mode = "trk"]
            ELSE bad
      [] OTHER -> bad

RECURSIVE ReadFrom(_, _, _)
ReadFrom(st, tokens, i) ==
    IF i > Len(tokens) THEN st ELSE ReadFrom(ReadToken(st, tokens[i]), tokens, i + 1)

EmptyGpx == [version |-> "unknown", creator |-> None, tracks |-> <<>>]

gpx_read(tokens) ==
    LET st == ReadFrom([mode |-> "top", gpx |-> EmptyGpx], tokens, 1) IN
    IF st.mode = "end" THEN Ok(st.gpx) ELSE Err("GpxReadError")

(***************************************************************************)
(* Documents.                                                              *)
(***************************************************************************)
Polyline(v) == Obj(Member("polyline", Obj(Member("pointsData", v))))
Routes(v) == Arr(<<Obj(Member("lineSegments", Arr(<<Polyline(v)>>)))>>)

\* An optional member: none when v is None.
OptMember(k, v) == IF v.some THEN Member(k, v.val) ELSE EmptyMembers

\* trails[0] and maps[0], name and pointsData each present or not.
OfflineEntry(name, points) ==
    Obj(Join(OptMember("name", name),
             IF points.some
             THEN Member("defaultMap", Obj(Member("routes", Routes(points.val))))
             ELSE EmptyMembers))
DeepEntry(name, points) ==
    Obj(Join(OptMember("name", name),
             IF points.some THEN Member("routes", Routes(points.val))
             ELSE EmptyMembers))

\* The test cases' json_builder closures.
OfflineBuilder(name, polyline) ==
    Obj(Member("trails", Arr(<<OfflineEntry(Some(Str(name)), Some(Str(polyline)))>>)))
DeepBuilder(name, polyline) ==
    Obj(Member("maps", Arr(<<DeepEntry(Some(Str(name)), Some(Str(polyline)))>>)))

\* Coordinates of the test cases: the two tests' first points, a point finer
\* than five decimals, and a latitude no polyline encodes.
CoordA == [x |-> -1202000000, y |-> 385000000]
CoordB == [x |-> -1210000000, y |-> 388000000]
CoordFine == [x |-> 49, y |-> -151]
CoordFar == [x |-> 0, y |-> 91 * DegreeUnits]
Coords == {CoordA, CoordB, CoordFine, CoordFar}

RECURSIVE ListsUpTo(_)
ListsUpTo(n) ==
    IF n = 0 THEN {<<>>}
    ELSE LET shorter == ListsUpTo(n - 1) IN
         shorter \cup {Append(l, c) : l \in {m \in shorter : Len(m) = n - 1}, c \in Coords}

\* case.coords of a test case: non-empty, at most MaxPoints long.
CoordLists == ListsUpTo(MaxPoints) \ {<<>>}

RouteNames == {"My Test Trail", "My Other Trail"}

\* Polyline texts of the documents given on the command line: the empty text,
\* two encoded lines, and a text with a byte below the alphabet ("!").
TextEmpty == <<>>
TextA == encode_coordinates(<<CoordA>>, POLYLINE_PRECISION).val
TextAB == encode_coordinates(<<CoordA, CoordB>>, POLYLINE_PRECISION).val
TextBad == <<33>>

PointsValues ==
    {None, Some(Num(7))} \cup {Some(Str(t)) : t \in {TextEmpty, TextA, TextAB, TextBad}}
NameValues == {None, Some(Num(7))} \cup {Some(Str(n)) : n \in RouteNames}

\* What the root holds under "trails" (and under "maps"): nothing, an array of
\* one entry, an empty array, a string, or an object keyed "0".
TrailsValues ==
    {None, Some(Arr(<<>>)), Some(Str("none")),
     Some(Obj(Member("0", OfflineEntry(Some(Str("My Test Trail")), Some(Str(TextA))))))}
    \cup {Some(Arr(<<OfflineEntry(n, p)>>)) : n \in NameValues, p \in PointsValues}
MapsValues ==
    {None, Some(Arr(<<>>)), Some(Str("none")),
     Some(Obj(Member("0", DeepEntry(Some(Str("My Other Trail")), Some(Str(TextAB))))))}
    \cup {Some(Arr(<<DeepEntry(n, p)>>)) : n \in NameValues, p \in PointsValues}

Documents ==
    {Obj(Join(OptMember("trails", t), OptMember("maps", m))) :
        t \in TrailsValues, m \in MapsValues}
    \cup {Arr(<<>>), Null,
          Obj(Member("routes", Routes(Str(TextA)))),
          Obj(Member("name", Str("My Test Trail")))}

\* The bytes of the input: a JSON text of some document, or no JSON text.
Malformed == [wellformed |-> FALSE]
Text(doc) == [wellformed |-> TRUE, value |-> doc]
Sources == {Malformed} \cup {Text(d) : d \in Documents}

\* serde_json::from_reader
from_reader(source) ==
    IF source.wellformed THEN Ok(source.value) ELSE Err("JsonParseError")

(***************************************************************************)
(* The command line and the file system.                                   *)
(***************************************************************************)
InputFile == "trail.json"
OutputFile == "trail.gpx"
OldContent == <<[tag |-> "old"]>>
Unlimited == 10 ^ 6

Inputs ==
    {[input |-> None, inputMissing |-> FALSE],
     [input |-> Some("-"), inputMissing |-> FALSE],
     [input |-> Some(InputFile), inputMissing |-> FALSE],
     [input |-> Some(InputFile), inputMissing |-> TRUE]}
Outputs ==
    {[output |-> None, outFile |-> None, creatable |-> TRUE],
     [output |-> Some("-"), outFile |-> None, creatable |-> TRUE]}
    \cup {[output |-> Some(OutputFile), outFile |-> f, creatable |-> c] :
            f \in {None, Some(OldContent)}, c \in BOOLEAN}
\* How many elements the sink takes before it rejects a write.
Rooms == {3, Unlimited}

IsStd(arg) == arg = None \/ arg = Some("-")

(***************************************************************************)
(* State.                                                                  *)
(***************************************************************************)
VARIABLES
    harness,      \* "cli": main; "test": run_conversion_test
    case,         \* the test case (None under main)
    args,         \* Args: input and output, each an Option
    source,       \* the bytes the reader yields
    inputMissing, \* the named input file does not exist
    creatable,    \* File::create on the named output succeeds
    room,         \* elements the sink takes before it rejects a write
    before,       \* the named output file's content when main started
    outFile,      \* the named output file's content (None: no such file)
    stdout,       \* what standard output has received
    buffer,       \* the test's output_buffer
    writer,       \* the writer run is given: "none" until opened
    pc,           \* the statement main or run is at
    json, polyline, route_name, line_string, track,   \* run's locals
    result,       \* "running", "Ok", or the Error returned
    stages,       \* the stages of run executed so far, in order
    parsed        \* the test's parsed_gpx

env == <<harness, case, args, source, inputMissing, creatable, room, before>>
sinks == <<outFile, stdout, buffer>>
locals == <<json, polyline, route_name, line_string, track>>
vars == <<env, sinks, writer, pc, locals, result, stages, parsed>>

\* Mutant: the route name extracted before the polyline.
StageAfterNameFirst(stage) ==
    CASE stage = "parse" -> "name"
      [] stage = "name" -> "polyline"
      [] stage = "polyline" -> "decode"
      [] stage = "decode" -> "create"
      [] stage = "create" -> "write"
      [] stage = "write" -> "return"

\* The order of run's statements.
StageAfter(stage) ==
    CASE stage = "parse" -> "polyline"
      [] stage = "polyline" -> "name"
      [] stage = "name" -> "decode"
      [] stage = "decode" -> "create"
      [] stage = "create" -> "write"
      [] stage = "write" -> "return"

NoLocals ==
    /\ json = None /\ polyline = None /\ route_name = None
    /\ line_string = None /\ track = None

InitCli ==
    /\ harness = "cli" /\ case = None
    /\ \E i \in Inputs, o \in Outputs :
          /\ args = [input |-> i.input, output |-> o.output]
          /\ inputMissing = i.inputMissing
          /\ outFile = o.outFile /\ before = o.outFile
          /\ creatable = o.creatable
          /\ source \in (IF i.inputMissing THEN {Malformed} ELSE Sources)
    /\ room \in Rooms
    /\ stdout = <<>> /\ buffer = <<>>
    /\ writer = "none"
    /\ pc = "get_input_reader"
    /\ result = "running"

\* run_conversion_test up to the call of run: the polyline is encoded (the
\* test panics when that fails) and the builder's document is rendered.
InitTest ==
    /\ harness = "test"
    /\ \E coords \in CoordLists, name \in RouteNames, shape \in {"offline", "deep"} :
          LET polyline_str == encode_coordinates(coords, POLYLINE_PRECISION) IN
          /\ case = Some([coords |-> coords, route_name |-> name, shape |-> shape])
          /\ IF polyline_str.ok
             THEN /\ source = Text(IF shape = "offline"
                                   THEN OfflineBuilder(name, polyline_str.val)
                                   ELSE DeepBuilder(name, polyline_str.val))
                  /\ pc = "parse" /\ result = "running"
             ELSE /\ source = Malformed
                  /\ pc = "done" /\ result = "EncodePanic"
    /\ args = [input |-> None, output |-> None]
    /\ inputMissing = FALSE /\ creatable = TRUE /\ room = Unlimited
    /\ outFile = None /\ before = None /\ stdout = <<>> /\ buffer = <<>>
    /\ writer = "buffer"

Init ==
    /\ InitCli \/ InitTest
    /\ NoLocals
    /\ stages = <<>>
    /\ parsed = None

\* An Err return of run or main.
Fail(e) == /\ result' = e /\ pc' = "done"

(***************************************************************************)
(* main                                                                    *)
(***************************************************************************)
get_input_reader ==
    /\ pc = "get_input_reader"
    /\ IF ~IsStd(args.input) /\ inputMissing
       THEN Fail("FileError")
       ELSE /\ pc' = "get_output_writer" /\ UNCHANGED result
    /\ UNCHANGED <<env, sinks, writer, locals, stages, parsed>>

\* File::create makes the file, or empties the one that is there.
\* The BufWriter around the sink hands its bytes on in order; the model
\* writes through it: a write is taken or rejected by the sink itself.
get_output_writer ==
    /\ pc = "get_output_writer"
    /\ IF IsStd(args.output)
       THEN /\ writer' = "stdout" /\ pc' = "parse"
            /\ UNCHANGED <<outFile, result>>
       ELSE IF ~creatable
       THEN /\ Fail("FileError") /\ UNCHANGED <<outFile, writer>>
       ELSE /\ outFile' = Some(<<>>)
            /\ writer' = "file" /\ pc' = "parse"
            /\ UNCHANGED result
    /\ UNCHANGED <<env, stdout, buffer, locals, stages, parsed>>

(***************************************************************************)
(* run                                                                     *)
(***************************************************************************)
ParseJson ==
    /\ pc = "parse"
    /\ stages' = Append(stages, "parse")
    /\ LET r == from_reader(source) IN
       IF r.ok
       THEN /\ json' = Some(r.val) /\ pc' = StageAfter("parse") /\ UNCHANGED result
       ELSE /\ Fail(r.err) /\ UNCHANGED json
    /\ UNCHANGED <<env, sinks, writer, polyline, route_name, line_string, track, parsed>>

ExtractPolyline ==
    /\ pc = "polyline"
    /\ stages' = Append(stages, "polyline")
    /\ LET r == extract_polyline(json.val) IN
       IF r.ok
       THEN /\ polyline' = Some(r.val) /\ pc' = StageAfter("polyline")
            /\ UNCHANGED result
       ELSE /\ Fail(r.err) /\ UNCHANGED polyline
    /\ UNCHANGED <<env, sinks, writer, json, route_name, line_string, track, parsed>>

ExtractRouteName ==
    /\ pc = "name"
    /\ stages' = Append(stages, "name")
    /\ LET r == extract_route_name(json.val) IN
       IF r.ok
       THEN /\ route_name' = Some(r.val) /\ pc' = StageAfter("name")
            /\ UNCHANGED result
       ELSE /\ Fail(r.err) /\ UNCHANGED route_name
    /\ UNCHANGED <<env, sinks, writer, json, polyline, line_string, track, parsed>>

DecodePolyline ==
    /\ pc = "decode"
    /\ stages' = Append(stages, "decode")
    /\ LET r == decode_polyline(polyline.val, POLYLINE_PRECISION) IN
       IF r.ok
       THEN /\ line_string' = Some(r.val) /\ pc' = StageAfter("decode")
            /\ UNCHANGED result
       ELSE /\ Fail("PolylineDecodeError") /\ UNCHANGED line_string
    /\ UNCHANGED <<env, sinks, writer, json, polyline, route_name, track, parsed>>

CreateGpx ==
    /\ pc = "create"
    /\ stages' = Append(stages, "create")
    /\ track' = Some(create_gpx(line_string.val, route_name.val))
    /\ pc' = StageAfter("create")
    /\ UNCHANGED <<env, sinks, writer, json, polyline, route_name, line_string,
                   result, parsed>>

\* What the writer's sink holds.
Written ==
    CASE writer = "stdout" -> stdout
      [] writer = "file" -> outFile.val
      [] writer = "buffer" -> buffer
      [] OTHER -> <<>>

\* The elements of tokens the sink takes, in order, until it has no room.
Accepted(tokens) ==
    SubSeq(tokens, 1, IF Len(tokens) <= room THEN Len(tokens) ELSE room)

\* write_gpx: gpx::write emits the document element by element; the first
\* write the sink rejects ends it with GpxWriteError.
WriteGpx ==
    /\ pc = "write"
    /\ stages' = Append(stages, "write")
    /\ LET tokens == Serialize(GpxOf(track.val))
           taken == Accepted(tokens) IN
       /\ CASE writer = "stdout" ->
                  /\ stdout' = stdout \o taken /\ UNCHANGED <<outFile, buffer>>
            [] writer = "file" ->
                  /\ outFile' = Some(outFile.val \o taken)
                  /\ UNCHANGED <<stdout, buffer>>
            [] writer = "buffer" ->
                  /\ buffer' = buffer \o taken /\ UNCHANGED <<outFile, stdout>>
       /\ IF Len(taken) = Len(tokens)
          THEN /\ pc' = StageAfter("write") /\ UNCHANGED result
          ELSE Fail("GpxWriteError")
    /\ UNCHANGED <<env, writer, locals, parsed>>

\* Ok(())
Return ==
    /\ pc = "return"
    /\ result' = "Ok"
    /\ pc' = "done"
    /\ UNCHANGED <<env, sinks, writer, locals, stages, parsed>>

\* run_and_parse_gpx after run: gpx::read of the output buffer.
ReadBack ==
    /\ pc = "done" /\ harness = "test" /\ result = "Ok" /\ parsed = None
    /\ parsed' = Some(gpx_read(buffer))
    /\ UNCHANGED <<env, sinks, writer, pc, locals, result, stages>>

Next ==
    \/ get_input_reader
    \/ get_output_writer
    \/ ParseJson
    \/ ExtractPolyline
    \/ ExtractRouteName
    \/ DecodePolyline
    \/ CreateGpx
    \/ WriteGpx
    \/ Return
    \/ ReadBack

Spec == Init /\ [][Next]_vars

(***************************************************************************)
(* Notions the properties share.                                           *)
(***************************************************************************)
Doc == source.value
Parsed == source.wellformed /\ json # None

Executed(stage) == \E i \in 1..Len(stages) : stages[i] = stage

Shapes == {"offline", "deep"}
PolylinePathOf(shape) ==
    IF shape = "offline" THEN OfflinePolylinePath ELSE DeepPolylinePath
NamePathOf(shape) == IF shape = "offline" THEN OfflineNamePath ELSE DeepNamePath

Resolves(d, path) == pointer(d, path).some
IsString(d, path) == Resolves(d, path) /\ pointer(d, path).val.t = "str"
StringAt(d, path) == pointer(d, path).val.s

\* The document holds both of the shape's values, as strings.
Matches(d, shape) ==
    IsString(d, PolylinePathOf(shape)) /\ IsString(d, NamePathOf(shape))
\* The shape of a document: the first shape, in priority order, it matches.
ShapeOf(d) ==
    IF Matches(d, "offline") THEN "offline"
    ELSE IF Matches(d, "deep") THEN "deep" ELSE "none"

BothShapesResolve(d) ==
    /\ Resolves(d, OfflinePolylinePath) /\ Resolves(d, DeepPolylinePath)
    /\ Resolves(d, OfflineNamePath) /\ Resolves(d, DeepNamePath)

\* The output read back, and whether it is one track of one segment.
Output == gpx_read(Written)
OneTrackOneSegment(gpx) ==
    Len(gpx.tracks) = 1 /\ Len(gpx.tracks[1].segments) = 1
PointsOf(gpx) == gpx.tracks[1].segments[1].points

\* Coordinate c as precision 5 keeps it.
Kept(c) ==
    [x |-> unscale(scale(c.x, POLYLINE_PRECISION), POLYLINE_PRECISION),
     y |-> unscale(scale(c.y, POLYLINE_PRECISION), POLYLINE_PRECISION)]
Encodable(coords) == \A i \in 1..Len(coords) : InRange(coords[i])
EncodedLists == {l \in CoordLists \cup {<<>>} : Encodable(l)}

Abs(n) == IF n < 0 THEN -n ELSE n

(***************************************************************************)
(* C1  Priority order.                                                     *)
(***************************************************************************)
\* C1, as stated: in a document in which the offline and the deep paths all
\* resolve, extract_polyline returns the value at the offline polyline path
\* and extract_route_name the value at the offline name path.
PriorityOrderAsStated ==
    (Parsed /\ BothShapesResolve(Doc)) =>
        /\ Executed("polyline") =>
              /\ polyline # None
              /\ Str(polyline.val) = pointer(Doc, OfflinePolylinePath).val
        /\ Executed("name") =>
              /\ route_name # None
              /\ Str(route_name.val) = pointer(Doc, OfflineNamePath).val

\* C1, amended: in such a document each extraction answers from the offline
\* value alone: it returns that value when it is a string and fails with
\* PolylineNotString (RouteNameNotString) when it is not; the deep value is
\* never returned in its place.
PriorityOrder ==
    (Parsed /\ BothShapesResolve(Doc)) =>
        /\ Executed("polyline") =>
              IF IsString(Doc, OfflinePolylinePath)
              THEN polyline = Some(StringAt(Doc, OfflinePolylinePath))
              ELSE polyline = None /\ result = "PolylineNotString"
        /\ Executed("name") =>
              IF IsString(Doc, OfflineNamePath)
              THEN route_name = Some(StringAt(Doc, OfflineNamePath))
              ELSE route_name = None /\ result = "RouteNameNotString"

\* Both shapes hold strings, the deep ones other than the offline ones, and
\* both extractions have run.
PriorityOrderWitness ==
    /\ Parsed /\ Matches(Doc, "offline") /\ Matches(Doc, "deep")
    /\ StringAt(Doc, OfflinePolylinePath) # StringAt(Doc, DeepPolylinePath)
    /\ StringAt(Doc, OfflineNamePath) # StringAt(Doc, DeepNamePath)
    /\ Executed("name") /\ polyline # None /\ route_name # None

(***************************************************************************)
(* C2  No merging across shapes.                                           *)
(***************************************************************************)
\* C2: when run succeeds, the polyline and the route name of the track are
\* the two values of one shape of the document.
NoMergingAcrossShapes ==
    (pc = "done" /\ result = "Ok") =>
        \E shape \in Shapes :
            /\ pointer(Doc, PolylinePathOf(shape)) = Some(Str(polyline.val))
            /\ pointer(Doc, NamePathOf(shape)) = Some(Str(route_name.val))

(***************************************************************************)
(* C3  No partial output on failure.                                       *)
(***************************************************************************)
\* C3: when main ends in an error, standard output has received nothing and
\* the named output file is as it was before the run, or is a new file that
\* holds nothing: no part of a document is in it, and a file that was there
\* is not emptied.
NoPartialOutputOnFailure ==
    (harness = "cli" /\ pc = "done" /\ result # "Ok") =>
        /\ stdout = <<>>
        /\ outFile = before \/ (before = None /\ outFile = Some(<<>>))

(***************************************************************************)
(* C4  Missing-data failure.                                               *)
(***************************************************************************)
HasRoot(d, key) == d.t = "obj" /\ key \in DOMAIN d.members

\* C4: on a document with neither a trails nor a maps member at the root, run
\* returns PolylineNotFound, and the writer has received nothing when it
\* returns.
MissingDataFailure ==
    (pc = "done" /\ Parsed /\ ~HasRoot(Doc, "trails") /\ ~HasRoot(Doc, "maps")) =>
        result = "PolylineNotFound" /\ Written = <<>>

\* run has returned on a document that has members, none of them trails or maps.
MissingDataWitness ==
    /\ pc = "done" /\ Parsed /\ Doc.t = "obj" /\ DOMAIN Doc.members # {}
    /\ ~HasRoot(Doc, "trails") /\ ~HasRoot(Doc, "maps")
    /\ Executed("polyline")

(***************************************************************************)
(* C5  Error classification of extraction.                                 *)
(***************************************************************************)
\* The value the candidate paths resolve to: the first that resolves.
Resolved(d, first, second) ==
    IF Resolves(d, first) THEN pointer(d, first) ELSE pointer(d, second)

\* What an extraction must answer on document d, given its two paths and its
\* two errors: <<value (or None), error (or "running")>>.
Classified(d, first, second, notFound, notString) ==
    LET v == Resolved(d, first, second) IN
    IF ~Resolves(d, first) /\ ~Resolves(d, second) THEN <<None, notFound>>
    ELSE IF v.val.t # "str" THEN <<None, notString>>
    ELSE <<Some(v.val.s), "none">>

\* C5: extract_polyline returns PolylineNotFound exactly when neither polyline
\* path resolves, PolylineNotString when the resolved value is no string, and
\* the string otherwise; extract_route_name likewise with its two errors.
ErrorClassification ==
    /\ (Parsed /\ Executed("polyline")) =>
          LET c == Classified(Doc, OfflinePolylinePath, DeepPolylinePath,
                              "PolylineNotFound", "PolylineNotString") IN
          /\ polyline = c[1]
          /\ (c[1] = None) => result = c[2]
          /\ (result = "PolylineNotFound") <=>
                (~Resolves(Doc, OfflinePolylinePath) /\ ~Resolves(Doc, DeepPolylinePath))
    /\ (Parsed /\ Executed("name")) =>
          LET c == Classified(Doc, OfflineNamePath, DeepNamePath,
                              "RouteNameNotFound", "RouteNameNotString") IN
          /\ route_name = c[1]
          /\ (c[1] = None) => result = c[2]
          /\ (result = "RouteNameNotFound") <=>
                (~Resolves(Doc, OfflineNamePath) /\ ~Resolves(Doc, DeepNamePath))

\* The name extraction has failed on a name that is no string, where the
\* offline path does not resolve and the deep one does.
ErrorClassificationWitness ==
    /\ Parsed /\ Executed("name")
    /\ ~Resolves(Doc, OfflineNamePath) /\ Resolves(Doc, DeepNamePath)
    /\ result = "RouteNameNotString"
    /\ polyline # None

(***************************************************************************)
(* C6  Shape coverage.                                                     *)
(***************************************************************************)
\* The output is one track named n of one segment whose points are the
\* coordinates of coords, in order, as precision 5 keeps them.
IsTrackOf(out, n, coords) ==
    /\ out.ok
    /\ OneTrackOneSegment(out.val)
    /\ out.val.tracks[1].name = Some(n)
    /\ Len(PointsOf(out.val)) = Len(coords)
    /\ \A i \in 1..Len(coords) : PointsOf(out.val)[i].point = Kept(coords[i])

\* C6: when run succeeds on a document of the offline or the deep shape whose
\* name is n and whose pointsData encodes a list of k coordinates, the output
\* is one track named n of one segment of k points, point i at coordinate i.
ShapeCoverage ==
    (pc = "done" /\ result = "Ok" /\ ShapeOf(Doc) # "none") =>
        \A coords \in EncodedLists :
            StringAt(Doc, PolylinePathOf(ShapeOf(Doc)))
                    = encode_coordinates(coords, POLYLINE_PRECISION).val
                => IsTrackOf(Output, StringAt(Doc, NamePathOf(ShapeOf(Doc))), coords)

\* The other shape's root member is not in the document.
SingleRoot(d) ==
    \/ ShapeOf(d) = "offline" /\ ~HasRoot(d, "maps")
    \/ ShapeOf(d) = "deep" /\ ~HasRoot(d, "trails")

\* What holds of C6: the same, on the documents that hold one shape only.
ShapeCoverageSingleRoot ==
    (pc = "done" /\ result = "Ok" /\ SingleRoot(Doc)) =>
        \A coords \in EncodedLists :
            StringAt(Doc, PolylinePathOf(ShapeOf(Doc)))
                    = encode_coordinates(coords, POLYLINE_PRECISION).val
                => IsTrackOf(Output, StringAt(Doc, NamePathOf(ShapeOf(Doc))), coords)

(***************************************************************************)
(* C7  Round trip.                                                         *)
(***************************************************************************)
TestOver == harness = "test" /\ pc = "done" /\ (result # "Ok" \/ parsed # None)

\* Every coordinate of the case is read back within TOLERANCE on each axis.
ReadBackWithinTolerance ==
    /\ result = "Ok" /\ parsed.val.ok
    /\ OneTrackOneSegment(parsed.val.val)
    /\ Len(PointsOf(parsed.val.val)) >= Len(case.val.coords)
    /\ \A i \in 1..Len(case.val.coords) :
          LET point == PointsOf(parsed.val.val)[i].point
              coord == case.val.coords[i] IN
          /\ Abs(point.y - coord.y) < TOLERANCE
          /\ Abs(point.x - coord.x) < TOLERANCE

\* C7, as stated: whatever the non-empty list of longitudes and latitudes
\* (each inside its range), the conversion test reads every coordinate back
\* within 1e-6.
RoundTripAsStated ==
    (TestOver /\ Encodable(case.val.coords)) => ReadBackWithinTolerance

\* A coordinate precision 5 can hold: inside the latitude and longitude
\* ranges, and a whole number of 1e-5 degrees on each axis.
FiveDecimals(c) ==
    LET step == DegreeUnits \div Factor(POLYLINE_PRECISION) IN
    InRange(c) /\ c.x % step = 0 /\ c.y % step = 0

\* C7, amended: whatever the non-empty list of coordinates inside the
\* coordinate ranges with at most five decimals each, the conversion test
\* reads every coordinate back within 1e-6.
RoundTrip ==
    (TestOver /\ \A i \in 1..Len(case.val.coords) : FiveDecimals(case.val.coords[i]))
        => ReadBackWithinTolerance

\* A case of two different coordinates has been read back.
RoundTripWitness ==
    /\ TestOver /\ parsed # None
    /\ Len(case.val.coords) = 2 /\ case.val.coords[1] # case.val.coords[2]
    /\ \A i \in 1..2 : FiveDecimals(case.val.coords[i])

(***************************************************************************)
(* C8  Fixed metadata.                                                     *)
(***************************************************************************)
\* C8: the output of every successful run declares creator "alltrailsgpx" and
\* version 1.1 (so any two successful runs agree on both).
FixedMetadata ==
    (pc = "done" /\ result = "Ok") =>
        /\ Output.ok
        /\ Output.val.creator = Some("alltrailsgpx")
        /\ Output.val.version = "1.1"

\* A run has succeeded on a track of two points, written to the named file.
FixedMetadataWitness ==
    /\ pc = "done" /\ result = "Ok" /\ writer = "file"
    /\ Len(line_string.val) = 2

(***************************************************************************)
(* C9  Empty-coordinate edge case.                                         *)
(***************************************************************************)
\* run was entered with a sink that rejects nothing.
RanUnhindered == pc = "done" /\ Parsed /\ room = Unlimited

EmptyTrack(out) ==
    out.ok /\ OneTrackOneSegment(out.val) /\ PointsOf(out.val) = <<>>

\* C9: on a document of an accepted shape whose pointsData is the empty string
\* and whose name is a string, run succeeds and the output is one track of one
\* segment of no points.
EmptyCoordinates ==
    (RanUnhindered /\ ShapeOf(Doc) # "none"
        /\ StringAt(Doc, PolylinePathOf(ShapeOf(Doc))) = <<>>)
      => result = "Ok" /\ EmptyTrack(Output)

\* What holds of C9: the same, on the documents that hold one shape only.
EmptyCoordinatesSingleRoot ==
    (RanUnhindered /\ SingleRoot(Doc)
        /\ StringAt(Doc, PolylinePathOf(ShapeOf(Doc))) = <<>>)
      => result = "Ok" /\ EmptyTrack(Output)

(***************************************************************************)
(* C10  Fail-closed stage order.                                           *)
(***************************************************************************)
StageOrder == <<"parse", "polyline", "name", "decode", "create", "write">>

\* The stage an error comes from.
StageOfError(e) ==
    CASE e = "JsonParseError" -> "parse"
      [] e \in {"PolylineNotFound", "PolylineNotString"} -> "polyline"
      [] e \in {"RouteNameNotFound", "RouteNameNotString"} -> "name"
      [] e = "PolylineDecodeError" -> "decode"
      [] e = "GpxWriteError" -> "write"

RunErrors ==
    {"JsonParseError", "PolylineNotFound", "PolylineNotString", "RouteNameNotFound",
     "RouteNameNotString", "PolylineDecodeError", "GpxWriteError"}

\* C10: run executes parse, extract polyline, extract name, decode, write in
\* that order; the error it returns is that of the last stage it executed;
\* a document with neither polyline nor name gives PolylineNotFound, one with
\* an undecodable polyline and no name gives RouteNameNotFound; and the writer
\* has received something only when the four stages before it succeeded.
FailClosedStageOrder ==
    /\ stages = SubSeq(StageOrder, 1, Len(stages))
    /\ result \in RunErrors =>
          /\ pc = "done"
          /\ stages # <<>> /\ stages[Len(stages)] = StageOfError(result)
    /\ (pc = "done" /\ Parsed) =>
          /\ (~Resolves(Doc, OfflinePolylinePath) /\ ~Resolves(Doc, DeepPolylinePath)
                /\ ~Resolves(Doc, OfflineNamePath) /\ ~Resolves(Doc, DeepNamePath))
              => result = "PolylineNotFound"
          /\ (polyline # None /\ ~decode_polyline(polyline.val, POLYLINE_PRECISION).ok
                /\ ~Resolves(Doc, OfflineNamePath) /\ ~Resolves(Doc, DeepNamePath))
              => result = "RouteNameNotFound"
    /\ Written # <<>> =>
          /\ json # None /\ polyline # None /\ route_name # None /\ line_string # None
          /\ Executed("decode")

\* run has returned RouteNameNotFound on a document whose polyline does not
\* decode and that has no name.
FailClosedWitness ==
    /\ pc = "done" /\ Parsed /\ result = "RouteNameNotFound"
    /\ polyline # None /\ ~decode_polyline(polyline.val, POLYLINE_PRECISION).ok

=============================================================================
